---- MODULE Spec2Model ----
(***************************************************************************)
(* Model of python/analyzer.py: the transcript analyzer CLI.               *)
(*                                                                         *)
(* A text (a file's content, the summary string) is modelled as the        *)
(* sequence of its segments between "\n" characters, so the string         *)
(* "a\n\nb" is <<"a", "", "b">>, the empty string is <<"">> and a string   *)
(* that ends in "\n" has "" as its last segment.  The encoding is one to   *)
(* one, hence equality of segment sequences is byte equality of strings.   *)
(* Texts inside records contain no "\n" in this model.                     *)
(*                                                                         *)
(* A path is a record [dir, name]; the file system fs is a function from   *)
(* the paths that exist to their content.                                  *)
(***************************************************************************)
EXTENDS Integers, Sequences, FiniteSets, TLC

VARIABLES
    argv,        \* sys.argv[1:], stable across runs
    fs,          \* file system: existing path -> content
    pc,          \* position of the process inside main
    jsonl_path,  \* main's local jsonl_path
    f_open,      \* the handle f of load_messages is open
    f_lines,     \* lines the handle f still has to yield
    messages,    \* load_messages' list / main's local messages
    summary,     \* main's local summary
    stdout,      \* lines printed by this run
    exit_code,   \* exit status of this run (-1 while running)
    events,      \* side effects of this run, in order
    runs,        \* number of invocations started so far
    fs0,         \* history: the file system when this run started
    prevIn,      \* history: in0 of the previous run
    prevOut      \* history: content at the output path when the previous run ended

vars == <<argv, fs, pc, jsonl_path, f_open, f_lines, messages, summary,
          stdout, exit_code, events, runs, fs0, prevIn, prevOut>>

\* ---------------------------------------------------------------- bounds
MaxLines == 3
MaxRuns == 2

\* ------------------------------------------------------- input alphabet
L_empty == ""
L_blank == "  "
L_bad == "not json"
L_user == "{\"role\":\"user\",\"text\":\"hi\"}"
L_char == " {\"role\":\"char\",\"text\":\"hello\"} "
L_char_stripped == "{\"role\":\"char\",\"text\":\"hello\"}"
L_other == "{\"role\":\"User\"}"
L_norole == "{\"text\":\"bye\"}"
L_int == "42"

InputLines == {L_empty, L_blank, L_bad, L_user, L_char, L_other, L_norole, L_int}

\* ------------------------------------------------------- Python values
PyNone == [none |-> TRUE, s |-> ""]
PyStr(s) == [none |-> FALSE, s |-> s]

\* a decoded JSON value: a dict with its items, or a non-dict with its repr
PyDict(items) == [isdict |-> TRUE, items |-> items, repr |-> ""]
PyInt(repr) == [isdict |-> FALSE, items |-> [k \in {} |-> PyNone], repr |-> repr]

\* str.strip(): removes leading and trailing whitespace
strip(line) ==
    CASE line = L_blank -> ""
      [] line = L_char -> L_char_stripped
      [] OTHER -> line

\* the texts json.loads accepts, among the lines that occur in the model
Decodable == {L_user, L_char_stripped, L_other, L_norole, L_int}

\* json.loads(line) for a decodable line (otherwise it raises JSONDecodeError)
json_loads(line) ==
    CASE line = L_user -> PyDict([role |-> PyStr("user"), text |-> PyStr("hi")])
      [] line = L_char_stripped -> PyDict([role |-> PyStr("char"), text |-> PyStr("hello")])
      [] line = L_other -> PyDict([role |-> PyStr("User")])
      [] line = L_norole -> PyDict([text |-> PyStr("bye")])
      [] line = L_int -> PyInt("42")

\* dict.get(key, default)
dict_get(m, key, default) ==
    IF key \in DOMAIN m.items THEN m.items[key] ELSE default

\* f"{v}" for a str or None
format(v) == IF v.none THEN "None" ELSE v.s

\* ------------------------------------------------------------- paths
Home == "/home/u"
NoPath == [dir |-> "", name |-> ""]

ArgPaths == {[dir |-> "~", name |-> "t.jsonl"], [dir |-> "/data", name |-> "summary.md"]}

\* Path.expanduser()
expanduser(p) == IF p.dir = "~" THEN [p EXCEPT !.dir = Home] ELSE p

\* variant: the summary is written over the input path itself
summary_path_input(p) == p

\* jsonl_path.parent / "summary.md"
summary_path(p) == [dir |-> p.dir, name |-> "summary.md"]

\* str(path)
PathStr(p) == p.dir \o "/" \o p.name

exists(p) == p \in DOMAIN fs

\* variant: the summary is appended to what the file already holds
write_text_append(p, data) ==
    [q \in DOMAIN fs \cup {p} |->
        IF q = p THEN (IF p \in DOMAIN fs THEN fs[p] ELSE <<>>) \o data ELSE fs[q]]

\* Path.write_text(data): create or replace the file at p
write_text(p, data) == [q \in DOMAIN fs \cup {p} |-> IF q = p THEN data ELSE fs[q]]

\* iteration over a text file: one line per "\n"-terminated segment, plus a
\* last unterminated segment when it is not empty
FileLines(content) ==
    IF content[Len(content)] = "" THEN SubSeq(content, 1, Len(content) - 1)
    ELSE content

\* ----------------------------------------------------------- summarize
RECURSIVE CountRole(_, _)
CountRole(msgs, role) ==
    IF msgs = <<>> THEN 0
    ELSE (IF dict_get(Head(msgs), "role", PyNone) = PyStr(role) THEN 1 ELSE 0)
         + CountRole(Tail(msgs), role)

\* summarize raises AttributeError when .get is applied to a non-dict
summarize_raises(msgs) ==
    /\ Len(msgs) > 0
    /\ \E i \in 1..Len(msgs) : ~msgs[i].isdict

\* variant: the "no messages" text ends with a newline like the full template
summarize_newline(msgs) ==
    IF Len(msgs) = 0 THEN <<"# Analysis", "", "No messages found.", "">>
    ELSE <<"# Analysis", "", "Total messages: " \o ToString(Len(msgs)), "">>

summarize(msgs) ==
    LET total == Len(msgs) IN
    IF total = 0 THEN <<"# Analysis", "", "No messages found.">>
    ELSE LET first == dict_get(msgs[1], "text", PyStr(""))
             last == dict_get(msgs[total], "text", PyStr(""))
             users == CountRole(msgs, "user")
             chars == CountRole(msgs, "char")
         IN <<"# Analysis", "",
              "Total messages: " \o ToString(total), "",
              "User messages: " \o ToString(users),
              "Character messages: " \o ToString(chars), "",
              "## First message",
              format(first), "",
              "## Last message",
              format(last), "">>

\* ------------------------------------------------------------- Init
RECURSIVE SeqsUpTo(_, _)
SeqsUpTo(S, n) ==
    IF n = 0 THEN {<<>>}
    ELSE LET shorter == SeqsUpTo(S, n - 1)
         IN shorter \cup {Append(q, x) : q \in {r \in shorter : Len(r) = n - 1}, x \in S}

\* transcripts: up to MaxLines lines, each terminated by "\n"
Contents == {q \o <<"">> : q \in SeqsUpTo(InputLines, MaxLines)}

OldSummary == <<"old notes", "">>

NoContent == <<>>

\* content of path p in file system g, NoContent when p does not exist
ContentAt(g, p) == IF p \in DOMAIN g THEN g[p] ELSE NoContent

\* the resolved input path and the output path of the command line
InputPath == IF argv = <<>> THEN NoPath ELSE expanduser(argv[1])
OutputPath == IF argv = <<>> THEN NoPath ELSE summary_path(InputPath)

Event(op, p) == [op |-> op, path |-> p]

Init ==
    /\ argv \in {<<>>} \cup {<<a>> : a \in ArgPaths}
    /\ \E a \in ArgPaths :
         LET p == expanduser(a)
             o == summary_path(p)
         IN \E inp \in Contents \cup {NoContent}, old \in {NoContent, OldSummary} :
              /\ (o = p) => old = NoContent
              /\ fs = [q \in (IF inp = NoContent THEN {} ELSE {p})
                               \cup (IF old = NoContent THEN {} ELSE {o})
                         |-> IF q = p THEN inp ELSE old]
    /\ pc = "main"
    /\ jsonl_path = NoPath
    /\ f_open = FALSE
    /\ f_lines = <<>>
    /\ messages = <<>>
    /\ summary = <<>>
    /\ stdout = <<>>
    /\ exit_code = -1
    /\ events = <<>>
    /\ runs = 1
    /\ fs0 = fs
    /\ prevIn = NoContent
    /\ prevOut = NoContent

\* ------------------------------------------------------------- main
\* variant: the missing argument is reported with the not-found exit code
MainUsage_exit2 ==
    /\ pc = "main"
    /\ Len(argv) < 1
    /\ stdout' = Append(stdout, "Usage: python analyzer.py <transcript.jsonl>")
    /\ events' = events \o <<Event("print", NoPath), Event("exit", NoPath)>>
    /\ exit_code' = 2
    /\ pc' = "exited"
    /\ UNCHANGED <<argv, fs, jsonl_path, f_open, f_lines, messages, summary,
                   runs, fs0, prevIn, prevOut>>

\* len(sys.argv) < 2: usage, exit 1
MainUsage ==
    /\ pc = "main"
    /\ Len(argv) < 1
    /\ stdout' = Append(stdout, "Usage: python analyzer.py <transcript.jsonl>")
    /\ events' = events \o <<Event("print", NoPath), Event("exit", NoPath)>>
    /\ exit_code' = 1
    /\ pc' = "exited"
    /\ UNCHANGED <<argv, fs, jsonl_path, f_open, f_lines, messages, summary,
                   runs, fs0, prevIn, prevOut>>

\* jsonl_path = Path(sys.argv[1]).expanduser()
MainResolve ==
    /\ pc = "main"
    /\ Len(argv) >= 1
    /\ jsonl_path' = expanduser(argv[1])
    /\ pc' = "exists"
    /\ UNCHANGED <<argv, fs, f_open, f_lines, messages, summary, stdout,
                   exit_code, events, runs, fs0, prevIn, prevOut>>

\* variant: the not-found message names the argument as typed, not the
\* resolved path
MainExists_rawarg ==
    /\ pc = "exists"
    /\ IF ~exists(jsonl_path)
       THEN /\ stdout' = Append(stdout, "File not found: " \o PathStr(argv[1]))
            /\ events' = events \o <<Event("exists", jsonl_path),
                                      Event("print", NoPath), Event("exit", NoPath)>>
            /\ exit_code' = 2
            /\ pc' = "exited"
       ELSE /\ events' = Append(events, Event("exists", jsonl_path))
            /\ pc' = "load"
            /\ UNCHANGED <<stdout, exit_code>>
    /\ UNCHANGED <<argv, fs, jsonl_path, f_open, f_lines, messages, summary,
                   runs, fs0, prevIn, prevOut>>

\* if not jsonl_path.exists(): message, exit 2; otherwise go on to load
MainExists ==
    /\ pc = "exists"
    /\ IF ~exists(jsonl_path)
       THEN /\ stdout' = Append(stdout, "File not found: " \o PathStr(jsonl_path))
            /\ events' = events \o <<Event("exists", jsonl_path),
                                      Event("print", NoPath), Event("exit", NoPath)>>
            /\ exit_code' = 2
            /\ pc' = "exited"
       ELSE /\ events' = Append(events, Event("exists", jsonl_path))
            /\ pc' = "load"
            /\ UNCHANGED <<stdout, exit_code>>
    /\ UNCHANGED <<argv, fs, jsonl_path, f_open, f_lines, messages, summary,
                   runs, fs0, prevIn, prevOut>>

\* load_messages: messages = [], with jsonl_path.open("r") as f
LoadOpen ==
    /\ pc = "load"
    /\ messages' = <<>>
    /\ f_open' = TRUE
    /\ f_lines' = FileLines(fs[jsonl_path])
    /\ events' = Append(events, Event("open", jsonl_path))
    /\ pc' = "read"
    /\ UNCHANGED <<argv, fs, jsonl_path, summary, stdout, exit_code, runs,
                   fs0, prevIn, prevOut>>

\* variant: a malformed line ends the loop (break instead of continue)
LoadLine_break ==
    /\ pc = "read"
    /\ f_lines # <<>>
    /\ LET line == strip(Head(f_lines)) IN
         IF line = "" THEN f_lines' = Tail(f_lines) /\ UNCHANGED messages
         ELSE IF line \in Decodable
              THEN f_lines' = Tail(f_lines) /\ messages' = Append(messages, json_loads(line))
              ELSE f_lines' = <<>> /\ UNCHANGED messages
    /\ UNCHANGED <<argv, fs, pc, jsonl_path, f_open, summary, stdout, exit_code,
                   events, runs, fs0, prevIn, prevOut>>

\* one iteration of "for line in f"
LoadLine ==
    /\ pc = "read"
    /\ f_lines # <<>>
    /\ LET line == strip(Head(f_lines)) IN
         /\ f_lines' = Tail(f_lines)
         /\ IF line = "" THEN UNCHANGED messages
            ELSE IF line \in Decodable
                 THEN messages' = Append(messages, json_loads(line))
                 ELSE UNCHANGED messages
    /\ UNCHANGED <<argv, fs, pc, jsonl_path, f_open, summary, stdout, exit_code,
                   events, runs, fs0, prevIn, prevOut>>

\* the loop is over: the with block closes f and load_messages returns
LoadClose ==
    /\ pc = "read"
    /\ f_lines = <<>>
    /\ f_open' = FALSE
    /\ events' = Append(events, Event("close", jsonl_path))
    /\ pc' = "summarize"
    /\ UNCHANGED <<argv, fs, jsonl_path, f_lines, messages, summary, stdout,
                   exit_code, runs, fs0, prevIn, prevOut>>

\* summary = summarize(messages); an uncaught AttributeError ends the
\* process with a traceback and exit status 1
MainSummarize ==
    /\ pc = "summarize"
    /\ IF summarize_raises(messages)
       THEN /\ events' = events \o <<Event("raise", NoPath), Event("exit", NoPath)>>
            /\ exit_code' = 1
            /\ pc' = "exited"
            /\ UNCHANGED summary
       ELSE /\ summary' = summarize(messages)
            /\ events' = Append(events, Event("summarize", NoPath))
            /\ pc' = "write"
            /\ UNCHANGED exit_code
    /\ UNCHANGED <<argv, fs, jsonl_path, f_open, f_lines, messages, stdout,
                   runs, fs0, prevIn, prevOut>>

\* summary_path.write_text(summary)
MainWrite ==
    /\ pc = "write"
    /\ fs' = write_text(summary_path(jsonl_path), summary)
    /\ events' = Append(events, Event("write", summary_path(jsonl_path)))
    /\ pc' = "print"
    /\ UNCHANGED <<argv, jsonl_path, f_open, f_lines, messages, summary, stdout,
                   exit_code, runs, fs0, prevIn, prevOut>>

\* print(f"Wrote summary to {summary_path}")
MainPrint ==
    /\ pc = "print"
    /\ stdout' = Append(stdout, "Wrote summary to " \o PathStr(summary_path(jsonl_path)))
    /\ events' = Append(events, Event("print", NoPath))
    /\ pc' = "exit"
    /\ UNCHANGED <<argv, fs, jsonl_path, f_open, f_lines, messages, summary,
                   exit_code, runs, fs0, prevIn, prevOut>>

\* sys.exit(0)
MainExit ==
    /\ pc = "exit"
    /\ exit_code' = 0
    /\ events' = Append(events, Event("exit", NoPath))
    /\ pc' = "exited"
    /\ UNCHANGED <<argv, fs, jsonl_path, f_open, f_lines, messages, summary,
                   stdout, runs, fs0, prevIn, prevOut>>

\* the tool is run again with the same command line: a new process, which
\* shares nothing with the previous one but the file system
Invoke ==
    /\ pc = "exited"
    /\ runs < MaxRuns
    /\ runs' = runs + 1
    /\ prevIn' = ContentAt(fs0, InputPath)
    /\ prevOut' = ContentAt(fs, OutputPath)
    /\ fs0' = fs
    /\ pc' = "main"
    /\ jsonl_path' = NoPath
    /\ f_open' = FALSE
    /\ f_lines' = <<>>
    /\ messages' = <<>>
    /\ summary' = <<>>
    /\ stdout' = <<>>
    /\ exit_code' = -1
    /\ events' = <<>>
    /\ UNCHANGED <<argv, fs>>

Next ==
    \/ MainUsage
    \/ MainResolve
    \/ MainExists
    \/ LoadOpen
    \/ LoadLine
    \/ LoadClose
    \/ MainSummarize
    \/ MainWrite
    \/ MainPrint
    \/ MainExit
    \/ Invoke

Spec == Init /\ [][Next]_vars

\* ------------------------------------------- vocabulary of the properties
Terminated == pc = "exited"

\* the run passes both precondition checks of main
PassedChecks == argv # <<>> /\ InputPath \in DOMAIN fs0

\* content of the input file when the run started
In0 == ContentAt(fs0, InputPath)

\* content of the output file now
Out == ContentAt(fs, OutputPath)

NonBlank(l) == strip(l) # ""
Parseable(l) == NonBlank(l) /\ strip(l) \in Decodable
Malformed(l) == NonBlank(l) /\ strip(l) \notin Decodable

\* positions of the non-blank, JSON-parseable lines of a content
ParseableIdx(c) == {i \in 1..Len(c) : Parseable(c[i])}
NParseable(c) == Cardinality(ParseableIdx(c))

\* the parsed values of the parseable lines of a content, in file order
ParsedLines(c) ==
    LET sel == SelectSeq(c, Parseable)
    IN [i \in 1..Len(sel) |-> json_loads(strip(sel[i]))]

\* the line is a record whose role field is exactly r
HasRole(l, r) ==
    /\ Parseable(l)
    /\ LET v == json_loads(strip(l))
       IN v.isdict /\ "role" \in DOMAIN v.items /\ v.items["role"] = PyStr(r)

\* the text field of the record on line l, "" when it has none
TextOf(l) ==
    LET v == json_loads(strip(l))
    IN IF v.isdict /\ "text" \in DOMAIN v.items THEN v.items["text"].s ELSE ""

Min(S) == CHOOSE x \in S : \A y \in S : x <= y
Max(S) == CHOOSE x \in S : \A y \in S : x >= y

HasEvent(op) == \E i \in 1..Len(events) : events[i].op = op

Sentinel == <<"# Analysis", "", "No messages found.">>
UsageLine == "Usage: python analyzer.py <transcript.jsonl>"

\* ------------------------------------------------------------------ C1
\* C1: a run on an existing transcript with N >= 1 non-blank JSON-parseable
\* lines (objects or any other JSON value) completes with exit code 0 and
\* the written summary has the line "Total messages: N".
C1_TotalMessages ==
    (Terminated /\ PassedChecks /\ NParseable(In0) >= 1)
        => /\ exit_code = 0
           /\ \E i \in 1..Len(Out) : Out[i] = "Total messages: " \o ToString(NParseable(In0))

\* ------------------------------------------------------------------ C2
\* C2: with zero parseable records the summary computed and written to
\* summary.md is exactly "# Analysis\n\nNo messages found.", without a
\* trailing newline.
C2_EmptySentinel ==
    (PassedChecks /\ NParseable(In0) = 0)
        => /\ pc \in {"write", "print", "exit", "exited"} => summary = Sentinel
           /\ pc \in {"print", "exit", "exited"} => Out = Sentinel
           /\ ~HasEvent("raise")

C2_Witness ==
    /\ Terminated /\ PassedChecks /\ exit_code = 0
    /\ NParseable(In0) = 0
    /\ \E i, j \in 1..Len(In0) : In0[i] = L_blank /\ Malformed(In0[j])
    /\ Out = Sentinel

\* ------------------------------------------------------------------ C3
\* C3: for every non-empty record sequence the written "User messages"
\* count is the number of records whose role is exactly "user", the
\* "Character messages" count the number whose role is exactly "char",
\* records with another or no role count in neither, and their sum is at
\* most the total.
C3_RoleCounts ==
    (Terminated /\ PassedChecks /\ NParseable(In0) >= 1)
        => LET users == Cardinality({i \in 1..Len(In0) : HasRole(In0[i], "user")})
               chars == Cardinality({i \in 1..Len(In0) : HasRole(In0[i], "char")})
           IN /\ Len(Out) >= 6
              /\ Out[5] = "User messages: " \o ToString(users)
              /\ Out[6] = "Character messages: " \o ToString(chars)
              /\ users + chars <= NParseable(In0)

\* ------------------------------------------------------------------ C4
\* C4: for every transcript with at least one parseable record the text
\* under "## First message" is the text field of the first parsed record
\* and the text under "## Last message" that of the last parsed record,
\* "" when the record has no text field.
C4_FirstLast ==
    (Terminated /\ PassedChecks /\ NParseable(In0) >= 1)
        => /\ Len(Out) = 13
           /\ Out[8] = "## First message"
           /\ Out[9] = TextOf(In0[Min(ParseableIdx(In0))])
           /\ Out[11] = "## Last message"
           /\ Out[12] = TextOf(In0[Max(ParseableIdx(In0))])

\* ------------------------------------------------------------------ C5
\* C5: load_messages returns exactly the in-order parsed values of the
\* non-blank, parseable lines; blank and malformed lines add nothing and a
\* malformed line neither raises nor stops the loading of later lines.
C5_LoadSubsequence ==
    /\ pc = "read" =>
         LET all == FileLines(In0)
             done == SubSeq(all, 1, Len(all) - Len(f_lines))
         IN messages = ParsedLines(done) /\ ~HasEvent("raise")
    /\ pc = "summarize" => messages = ParsedLines(In0) /\ ~HasEvent("raise")

C5_Witness ==
    /\ pc = "summarize"
    /\ \E i, j, k \in 1..Len(In0) :
         /\ i < j /\ j < k
         /\ Parseable(In0[i]) /\ Malformed(In0[j]) /\ Parseable(In0[k])
         /\ In0[i] # In0[k]
    /\ Len(messages) = 2

\* ------------------------------------------------------------------ C6
\* C6: without a positional argument the run prints the usage line and
\* exits with code 1; it checks no path, reads no file and writes no file,
\* and exit code 2 is never produced.
C6_UsageExit ==
    argv = <<>>
        => /\ pc \in {"main", "exited"}
           /\ exit_code \in {-1, 1}
           /\ fs = fs0
           /\ ~HasEvent("exists") /\ ~HasEvent("open") /\ ~HasEvent("write")
           /\ Terminated => exit_code = 1 /\ stdout = <<UsageLine>>

C6_Witness ==
    /\ argv = <<>> /\ Terminated /\ exit_code = 1
    /\ stdout = <<UsageLine>>
    /\ DOMAIN fs # {}

\* ------------------------------------------------------------------ C7
\* C7: with an argument whose resolved path does not exist the run prints
\* "File not found: <resolved path>" and exits with code 2; no file is
\* read, created or overwritten.
C7_NotFound ==
    (argv # <<>> /\ InputPath \notin DOMAIN fs0)
        => /\ fs = fs0
           /\ ~HasEvent("open") /\ ~HasEvent("write")
           /\ Terminated => /\ exit_code = 2
                            /\ stdout = <<"File not found: " \o InputPath.dir \o "/" \o InputPath.name>>
                            /\ InputPath.dir # "~"

C7_Witness ==
    /\ argv # <<>> /\ Terminated /\ exit_code = 2
    /\ stdout = <<"File not found: /home/u/t.jsonl">>
    /\ ContentAt(fs, [dir |-> "/home/u", name |-> "summary.md"]) = OldSummary

\* ------------------------------------------------------------------ C8
\* C8: every run that passes both precondition checks reads the input and
\* releases its handle, computes the summary, writes it to summary.md in
\* the input's directory, prints the confirmation and exits with code 0, in
\* this order and each exactly once, and writes no other file.
C8_EventOrder ==
    (Terminated /\ PassedChecks)
        => /\ events = <<Event("exists", InputPath), Event("open", InputPath),
                         Event("close", InputPath), Event("summarize", NoPath),
                         Event("write", OutputPath), Event("print", NoPath),
                         Event("exit", NoPath)>>
           /\ exit_code = 0
           /\ ~f_open
           /\ Out = summary
           /\ stdout = <<"Wrote summary to " \o OutputPath.dir \o "/summary.md">>
           /\ \A p \in (DOMAIN fs \cup DOMAIN fs0) \ {OutputPath} :
                ContentAt(fs, p) = ContentAt(fs0, p)

\* ------------------------------------------------------------------ C9
\* C9: a second run on the same unmodified input leaves summary.md with
\* the very content the first run left, whatever it held before.
C9_Idempotent ==
    (Terminated /\ runs >= 2 /\ argv # <<>> /\ In0 = prevIn)
        => Out = prevOut

C9_Witness ==
    /\ Terminated /\ runs >= 2 /\ argv # <<>> /\ exit_code = 0
    /\ In0 = prevIn
    /\ NParseable(In0) >= 2
    /\ InputPath # OutputPath
    /\ Out = prevOut /\ Out = summary

\* ----------------------------------------------------------------- C10
\* C10 (as stated): a run never changes its input file, also when the
\* input file is itself named summary.md.
C10_InputUnchanged ==
    (argv # <<>> /\ InputPath \in DOMAIN fs0)
        => ContentAt(fs, InputPath) = fs0[InputPath]

\* C10 (amended): a run never changes an input file that is not named
\* summary.md; an input file named summary.md is the output file, and a
\* run that reaches the write replaces its content by the summary.
C10_InputUnchangedUnlessOutput ==
    (argv # <<>> /\ InputPath \in DOMAIN fs0)
        => /\ InputPath.name # "summary.md" => ContentAt(fs, InputPath) = fs0[InputPath]
           /\ (InputPath.name = "summary.md" /\ pc \in {"print", "exit"})
                => ContentAt(fs, InputPath) = summary

C10_Witness ==
    /\ Terminated /\ exit_code = 0 /\ argv # <<>>
    /\ InputPath.name = "t.jsonl"
    /\ InputPath \in DOMAIN fs0
    /\ ContentAt(fs0, OutputPath) = OldSummary
    /\ Out = summary
    /\ fs[InputPath] = fs0[InputPath]

====
